---- MODULE Spec2Model ----
(***************************************************************************)
(* A model of upcoming_api.py: the method registry UPCOMING_METHODS, the   *)
(* attribute conversion functions, the dispatcher Upcoming.callMethod and  *)
(* the caching layer UpcomingCached over SimpleCache.                      *)
(*                                                                         *)
(* Python values are modelled as follows.  A str is a TLA+ string (TLC     *)
(* concatenates strings with \o, so makeKey's joins are computed on the    *)
(* characters).  A dict is a function whose domain is its key set.  A list *)
(* or tuple is a sequence.  A value a call returns or a converter produces *)
(* is a record tagged with its Python type.                                *)
(***************************************************************************)
EXTENDS Naturals, Sequences, FiniteSets, TLC

VARIABLES
    store,   \* SimpleCache.store of the UpcomingCached client's cache
    last,    \* the call that has just ended: its arguments and how it ended
    calls    \* how many calls have been made so far (counted in Spec)

vars == <<store, last, calls>>

----------------------------------------------------------------------------
(* Bounds of the model. *)

\* longest positional argument list a call is given
MaxArgs == 2

\* most named arguments a call is given
MaxKw == 1

\* most elements below the root of a response document
MaxNodes == 2

\* calls made on the clients in one behaviour of Spec
MaxCalls == 2

----------------------------------------------------------------------------
(* Python values. *)

UPCOMING_API == "http://upcoming.org/services/rest/"

None == [type |-> "NoneType", items |-> <<>>]

True == [type |-> "bool", items |-> <<>>]

List(items) == [type |-> "list", items |-> items]

\* Python's truth value of a returned object: None and [] are false
Truthy(v) == v.type = "bool" \/ (v.type = "list" /\ v.items # <<>>)

----------------------------------------------------------------------------
(* Attribute conversion functions.  Each takes the attribute's text and    *)
(* gives [exc, val]: exc is "" and val the converted value, or exc is the  *)
(* exception the conversion raises.  The texts the model's documents hold  *)
(* are those of Texts; the converters are tabulated on them.               *)

Texts == {"", "0", "1", "11", "x", "a,b", "19:00:00", "0000-00-00",
          "2006-07-27", "2006-06-08 12:00:36"}

Converted(type, repr) == [exc |-> "", val |-> [type |-> type, repr |-> repr]]

Raises(exc) == [exc |-> exc, val |-> None]

\* the texts int() accepts among Texts
IntTexts == {"0", "1", "11"}

int(s) == IF s \in IntTexts THEN Converted("int", s) ELSE Raises("ValueError")

string(s) == Converted("str", s)

tag_str(s) ==
    [exc |-> "", val |-> List(IF s = "a,b" THEN <<"a", "b">> ELSE <<s>>)]

\* re.match fails on a text that does not start YYYY-MM-DD and .groups() of
\* None raises AttributeError; year 0 is refused by datetime.date
date(s) ==
    CASE s = "2006-07-27" -> Converted("date", s)
      [] s = "2006-06-08 12:00:36" -> Converted("datetime", s)
      [] s = "0000-00-00" -> Raises("ValueError")
      [] OTHER -> Raises("AttributeError")

date_or_null(s) ==
    IF s # "" /\ s \notin {"0000-00-00"} THEN date(s) ELSE [exc |-> "", val |-> None]

time_or_null(s) ==
    IF s # ""
    THEN IF s \in IntTexts \cup {"19:00:00"}
         THEN Converted("time", s)
         ELSE Raises("ValueError")
    ELSE [exc |-> "", val |-> None]

boolean(s) ==
    IF s \in IntTexts
    THEN Converted("bool", IF s = "0" THEN "False" ELSE "True")
    ELSE Raises("ValueError")

\* the conversion function a descriptor names
Conversion(name, s) ==
    CASE name = "int" -> int(s)
      [] name = "string" -> string(s)
      [] name = "tag_str" -> tag_str(s)
      [] name = "date" -> date(s)
      [] name = "date_or_null" -> date_or_null(s)
      [] name = "time_or_null" -> time_or_null(s)
      [] name = "boolean" -> boolean(s)

----------------------------------------------------------------------------
(* Returned elements and attribute conversion rules, and the registry. *)

TOKEN ==
    [element |-> "token",
     conversions |->
       [token |-> "string", user_id |-> "int", user_name |-> "string",
        user_username |-> "string"]]

EVENT ==
    [element |-> "event",
     conversions |->
       [id |-> "int", name |-> "string", tags |-> "tag_str",
        description |-> "string", start_date |-> "date",
        end_date |-> "date_or_null", start_time |-> "time_or_null",
        end_time |-> "time_or_null", personal |-> "boolean",
        selfpromotion |-> "boolean", metro_id |-> "string",
        venue_id |-> "int", user_id |-> "int", category_id |-> "int",
        date_posted |-> "date"]]

EVENT_SEARCH_RESULT ==
    [element |-> "event",
     conversions |->
       [id |-> "int", name |-> "string", description |-> "string",
        start_date |-> "date", end_date |-> "date_or_null",
        start_time |-> "time_or_null", end_time |-> "time_or_null",
        personal |-> "boolean", selfpromotion |-> "boolean",
        metro_id |-> "string", venue_id |-> "int", user_id |-> "int",
        category_id |-> "int", date_posted |-> "date"]]

WATCHLIST_USER ==
    [element |-> "user",
     conversions |->
       [id |-> "int", name |-> "string", username |-> "string",
        status |-> "string"]]

METRO ==
    [element |-> "metro",
     conversions |->
       [id |-> "int", name |-> "string", code |-> "string", state_id |-> "int"]]

METRO_EXTENDED ==
    [element |-> "metro",
     conversions |->
       [id |-> "int", name |-> "string", code |-> "string",
        state_code |-> "string", country_code |-> "string", url |-> "string",
        state_id |-> "int"]]

METRO_SHORT ==
    [element |-> "metro",
     conversions |->
       [id |-> "int", name |-> "string", code |-> "string"]]

\* STATE in the source; STATE is a reserved word of TLA+
STATE_ ==
    [element |-> "state",
     conversions |->
       [id |-> "int", name |-> "string", code |-> "string"]]

COUNTRY ==
    [element |-> "country",
     conversions |->
       [id |-> "int", name |-> "string", code |-> "string"]]

VENUE ==
    [element |-> "venue",
     conversions |->
       [id |-> "int", name |-> "string", address |-> "string",
        city |-> "string", zip |-> "string", phone |-> "string",
        url |-> "string", description |-> "string", user_id |-> "int",
        private |-> "boolean"]]

VENUE_SHORT ==
    [element |-> "venue",
     conversions |->
       [id |-> "int", name |-> "string", city |-> "string", url |-> "string",
        user_id |-> "int", private |-> "boolean"]]

VENUE_SEARCH_RESULT ==
    [element |-> "venue",
     conversions |->
       [id |-> "int", name |-> "string", address |-> "string",
        city |-> "string", state |-> "string", zip |-> "string",
        country |-> "string", url |-> "string", description |-> "string",
        user_id |-> "int", private |-> "boolean"]]

CATEGORY ==
    [element |-> "category",
     conversions |->
       [id |-> "int", name |-> "string", description |-> "string"]]

WATCHLIST ==
    [element |-> "watchlist",
     conversions |->
       [id |-> "int", event_id |-> "int", status |-> "string"]]

USER ==
    [element |-> "user",
     conversions |->
       [id |-> "int", name |-> "string", username |-> "string",
        zip |-> "string", photourl |-> "string", url |-> "string"]]

WATCHLIST_EVENT ==
    [element |-> "event",
     conversions |->
       [username |-> "string", status |-> "string", id |-> "int",
        name |-> "string", tags |-> "tag_str", description |-> "string",
        start_date |-> "date", end_date |-> "date_or_null",
        start_time |-> "time_or_null", end_time |-> "time_or_null",
        personal |-> "boolean", metro_id |-> "string", venue_id |-> "int",
        user_id |-> "int", category_id |-> "int"]]

UPCOMING_METHODS ==
    "auth.getToken" :>
        [http_method |-> "GET",
         required |-> <<"frob">>,
         optional |-> <<>>,
         returns |-> TOKEN] @@
    "auth.checkToken" :>
        [http_method |-> "GET",
         required |-> <<"token">>,
         optional |-> <<>>,
         returns |-> TOKEN] @@
    "event.getInfo" :>
        [http_method |-> "GET",
         required |-> <<"event_id">>,
         optional |-> <<"token">>,
         returns |-> EVENT,
         cachable |-> TRUE] @@
    "event.add" :>
        [http_method |-> "POST",
         required |-> <<"token", "name", "venue_id", "category_id", "start_date">>,
         optional |-> <<"end_date", "start_time", "end_time", "description",
                       "personal", "selfpromotion">>,
         returns |-> EVENT] @@
    "event.search" :>
        [http_method |-> "GET",
         required |-> <<>>,
         optional |-> <<"search_text", "country_id", "state_id", "metro_id",
                       "venue_id", "min_date", "max_date", "tags",
                       "per_page", "page", "sort", "token">>,
         returns |-> EVENT_SEARCH_RESULT] @@
    "event.getWatchlist" :>
        [http_method |-> "GET",
         required |-> <<"token", "event_id">>,
         optional |-> <<>>,
         returns |-> WATCHLIST_USER] @@
    "metro.getInfo" :>
        [http_method |-> "GET",
         required |-> <<"metro_id">>,
         optional |-> <<>>,
         returns |-> METRO,
         cachable |-> TRUE] @@
    "metro.search" :>
        [http_method |-> "GET",
         required |-> <<>>,
         optional |-> <<"search_text", "country_id", "state_id">>,
         returns |-> METRO_EXTENDED] @@
    "metro.getMyList" :>
        [http_method |-> "GET",
         required |-> <<"token">>,
         optional |-> <<>>,
         returns |-> METRO_SHORT] @@
    "metro.getList" :>
        [http_method |-> "GET",
         required |-> <<"state_id">>,
         optional |-> <<>>,
         returns |-> METRO_SHORT,
         cachable |-> TRUE] @@
    "metro.getStateList" :>
        [http_method |-> "GET",
         required |-> <<"country_id">>,
         optional |-> <<>>,
         returns |-> STATE_,
         cachable |-> TRUE] @@
    "metro.getCountryList" :>
        [http_method |-> "GET",
         required |-> <<>>,
         optional |-> <<>>,
         returns |-> COUNTRY,
         cachable |-> TRUE] @@
    "venue.add" :>
        [http_method |-> "POST",
         required |-> <<"token", "venuename", "venueaddress", "venuecity", "metro_id">>,
         optional |-> <<"venuezip", "venuephone", "venueurl",
                       "venuedescription", "private">>,
         returns |-> VENUE] @@
    "venue.getInfo" :>
        [http_method |-> "GET",
         required |-> <<"venue_id">>,
         optional |-> <<"token">>,
         returns |-> VENUE,
         cachable |-> TRUE] @@
    "venue.getList" :>
        [http_method |-> "GET",
         required |-> <<"metro_id">>,
         optional |-> <<"token">>,
         returns |-> VENUE_SHORT] @@
    "venue.search" :>
        [http_method |-> "GET",
         required |-> <<>>,
         optional |-> <<"search_text", "country_id", "state_id", "metro_id",
                       "token">>,
         returns |-> VENUE_SEARCH_RESULT] @@
    "category.getList" :>
        [http_method |-> "GET",
         required |-> <<>>,
         optional |-> <<>>,
         returns |-> CATEGORY,
         cachable |-> TRUE] @@
    "watchlist.getList" :>
        [http_method |-> "GET",
         required |-> <<"token">>,
         optional |-> <<"min_date", "max_date", "sort">>,
         returns |-> WATCHLIST] @@
    "watchlist.add" :>
        [http_method |-> "POST",
         required |-> <<"token", "event_id">>,
         optional |-> <<"status">>,
         returns |->
             [element |-> "watchlist", conversions |-> [id |-> "int"]]] @@
    "watchlist.remove" :>
        [http_method |-> "POST",
         required |-> <<"token", "watchlist_id">>,
         optional |-> <<>>,
         returns |-> None] @@
    "user.getInfo" :>
        [http_method |-> "GET",
         required |-> <<"user_id">>,
         optional |-> <<>>,
         returns |-> USER,
         cachable |-> TRUE] @@
    "user.getInfoByUsername" :>
        [http_method |-> "GET",
         required |-> <<"username">>,
         optional |-> <<>>,
         returns |-> USER,
         cachable |-> TRUE] @@
    "user.getMetroList" :>
        [http_method |-> "GET",
         required |-> <<"token">>,
         optional |-> <<>>,
         returns |-> METRO] @@
    "user.getWatchlist" :>
        [http_method |-> "GET",
         required |-> <<"token", "user_id">>,
         optional |-> <<>>,
         returns |-> WATCHLIST_EVENT]

----------------------------------------------------------------------------
(* The client's key, the arguments calls are given, and the ordering of    *)
(* the strings makeKey sorts.                                              *)

api_key == "KEY"

\* a method name the registry does not hold
UnknownMethod == "event.bogus"

MethodNames == DOMAIN UPCOMING_METHODS \cup {UnknownMethod}

\* the values arguments take
Values == {"1", "11"}

\* the names named arguments take: declared ones, the implicit api_key and one
\* no method declares
KwNames == {"token", "metro_id", "metro_id1", "api_key"}

SeqsUpTo(S, n) == UNION {[1..k -> S] : k \in 0..n}

ArgLists == SeqsUpTo(Values, MaxArgs)

KwDicts ==
    UNION {[D -> Values] : D \in {K \in SUBSET KwNames : Cardinality(K) <= MaxKw}}

\* the strings list.sort() meets, in the order Python compares str
Collation ==
    <<"", "1", "11", "api_key", "auth.checkToken", "auth.getToken",
      "category.getList", "event.add", "event.bogus", "event.getInfo",
      "event.getWatchlist", "event.search", "metro.getCountryList",
      "metro.getInfo", "metro.getList", "metro.getMyList",
      "metro.getStateList", "metro.search", "metro_id", "metro_id1", "token",
      "user.getInfo", "user.getInfoByUsername", "user.getMetroList",
      "user.getWatchlist", "venue.add", "venue.getInfo", "venue.getList",
      "venue.search", "watchlist.add", "watchlist.getList",
      "watchlist.remove">>

Rank(s) == CHOOSE i \in 1..Len(Collation) : Collation[i] = s

StrLess(a, b) == Rank(a) < Rank(b)

sort(l) == SortSeq(l, StrLess)

RECURSIVE join(_)
join(l) == IF l = <<>> THEN "" ELSE Head(l) \o join(Tail(l))

RECURSIVE join_comma(_)
join_comma(l) ==
    IF l = <<>> THEN ""
    ELSE IF Len(l) = 1 THEN Head(l)
    ELSE Head(l) \o ", " \o join_comma(Tail(l))

\* the elements of a sequence, as a set
set(l) == {l[i] : i \in 1..Len(l)}

\* the keys of a dict as a list (in some order)
RECURSIVE keys(_)
keys(S) == IF S = {} THEN <<>> ELSE LET k == CHOOSE x \in S : TRUE IN <<k>> \o keys(S \ {k})

----------------------------------------------------------------------------
(* Response documents.  A response is what urlopen and minidom.parse make  *)
(* of a request: urlopen raises, or the body is not XML, or the document   *)
(* has a root with a stat attribute and elements below it, in document     *)
(* order.                                                                  *)

Element(tag, attrs) == [tag |-> tag, attrs |-> attrs]

HttpFailure == [urlopen |-> FALSE, xml |-> FALSE, stat |-> "", nodes |-> <<>>]

InvalidXml == [urlopen |-> TRUE, xml |-> FALSE, stat |-> "", nodes |-> <<>>]

Document(stat, nodes) == [urlopen |-> TRUE, xml |-> TRUE, stat |-> stat, nodes |-> nodes]

getAttribute(node, key) == IF key \in DOMAIN node.attrs THEN node.attrs[key] ELSE ""

\* a variant that does not compare the tag
getElementsByTagName_any_tag(nodes, tag) == nodes

getElementsByTagName(nodes, tag) == SelectSeq(nodes, LAMBDA n : n.tag = tag)

----------------------------------------------------------------------------
(* Upcoming.callMethod *)

\* how a call ends: kind "return" with value, or kind "raise" with the
\* exception class and message; requests lists the urlopen calls it made
Return(value, requests) ==
    [kind |-> "return", value |-> value, exc |-> "", msg |-> "", requests |-> requests]

Raise(exc, msg, requests) ==
    [kind |-> "raise", value |-> None, exc |-> exc, msg |-> msg, requests |-> requests]

\* the messages Upcoming.callMethod raises UpcomingError with (the HTTP and
\* XML messages without the query string and the sys.exc_info() they end in)
InvalidMethodMessage == "Invalid method specified"

HttpErrorMessage == "HTTP error: " \o UPCOMING_API

InvalidXmlMessage == "Service returned invalid XML"

\* a variant that writes the named arguments over the positional ones
MergedArguments_named_last(method, args, kw) ==
    LET meta == UPCOMING_METHODS[method]
        names == meta.required \o meta.optional
        bound == {names[i] : i \in 1..Len(args)}
    IN  [k \in DOMAIN kw \cup bound \cup {"api_key", "method"} |->
            IF k = "api_key" THEN api_key
            ELSE IF k = "method" THEN method
            ELSE IF k \in DOMAIN kw THEN kw[k]
            ELSE args[CHOOSE i \in 1..Len(args) : names[i] = k]]

\* a variant that takes the names in the order optional + required
MergedArguments_optional_first(method, args, kw) ==
    LET meta == UPCOMING_METHODS[method]
        names == meta.optional \o meta.required
        bound == {names[i] : i \in 1..Len(args)}
    IN  [k \in DOMAIN kw \cup bound \cup {"api_key", "method"} |->
            IF k \in bound THEN args[CHOOSE i \in 1..Len(args) : names[i] = k]
            ELSE IF k = "api_key" THEN api_key
            ELSE IF k = "method" THEN method
            ELSE kw[k]]

\* kw after api_key and method are set and the positional arguments are
\* written over it under the names required + optional, in order
MergedArguments(method, args, kw) ==
    LET meta == UPCOMING_METHODS[method]
        names == meta.required \o meta.optional
        kw1 == [k \in DOMAIN kw \cup {"api_key", "method"} |->
                   IF k = "api_key" THEN api_key
                   ELSE IF k = "method" THEN method
                   ELSE kw[k]]
        bound == {names[i] : i \in 1..Len(args)}
    IN  [k \in DOMAIN kw1 \cup bound |->
            IF k \in bound
            THEN args[CHOOSE i \in 1..Len(args) :
                        names[i] = k /\ \A j \in 1..Len(args) : names[j] = k => j <= i]
            ELSE kw1[k]]

\* urllib.urlencode(kw.items()): the name=value pairs of the query string
urlencode(kw) == {<<k, kw[k]>> : k \in DOMAIN kw}

\* urlopen(UPCOMING_API + '?' + qs) or urlopen(UPCOMING_API, qs)
Request(meta, qs) ==
    IF meta.http_method = "GET"
    THEN [verb |-> "GET", url |-> UPCOMING_API, query |-> qs, data |-> {}]
    ELSE [verb |-> "POST", url |-> UPCOMING_API, query |-> {}, data |-> qs]

RequiredMessage(method) ==
    "Required arguments for " \o method \o ": "
        \o join_comma(UPCOMING_METHODS[method].required)

\* d[key] = conversion(node.getAttribute(key)) for every key
ConvertNode(node, conversions) ==
    [k \in DOMAIN conversions |-> Conversion(conversions[k], getAttribute(node, k))]

\* the list of dictionaries, or the exception of the first element that has
\* an attribute its conversion refuses (conversions.items() is in dict order,
\* so any refusing key of that element may be the one met first)
Results(meta, nodes, requests) ==
    LET found == getElementsByTagName(nodes, meta.returns.element)
        conv == [i \in 1..Len(found) |-> ConvertNode(found[i], meta.returns.conversions)]
        refused(i) == {k \in DOMAIN conv[i] : conv[i][k].exc # ""}
        bad == {i \in 1..Len(found) : refused(i) # {}}
    IN  IF bad = {}
        THEN {Return(List([i \in 1..Len(found) |->
                              [k \in DOMAIN conv[i] |-> conv[i][k].val]]), requests)}
        ELSE LET i == CHOOSE b \in bad : \A c \in bad : b <= c
             IN  {Raise(conv[i][k].exc, "", requests) : k \in refused(i)}

\* a variant that takes the last error element
StatusMessage_last_error(nodes) ==
    LET errors == getElementsByTagName(nodes, "error")
    IN  IF errors # <<>> THEN getAttribute(errors[Len(errors)], "msg") ELSE "Status not OK"

\* the first error element's msg, or 'Status not OK'
StatusMessage(nodes) ==
    LET errors == getElementsByTagName(nodes, "error")
    IN  IF errors # <<>> THEN getAttribute(errors[1], "msg") ELSE "Status not OK"

\* the ways Upcoming.callMethod(method, *args, **kw) ends when the service
\* answers with resp
Upcoming_callMethod(method, args, kw, resp) ==
    IF method \notin DOMAIN UPCOMING_METHODS
    THEN {Raise("UpcomingError", InvalidMethodMessage, <<>>)}
    ELSE
    LET meta == UPCOMING_METHODS[method]
        names == meta.required \o meta.optional
    IN  IF Len(args) > Len(names)
        THEN {Raise("IndexError", "list index out of range", <<>>)}
        ELSE
        LET merged == MergedArguments(method, args, kw)
            required == meta.required \o <<"api_key">>
            requests == <<Request(meta, urlencode(merged))>>
        IN  IF Cardinality(set(required) \ DOMAIN merged) > 0
            THEN {Raise("UpcomingError", RequiredMessage(method), <<>>)}
            ELSE IF ~resp.urlopen
            THEN {Raise("UpcomingError", HttpErrorMessage, requests)}
            ELSE IF ~resp.xml
            THEN {Raise("UpcomingError", InvalidXmlMessage, requests)}
            ELSE IF resp.stat # "ok"
            THEN {Raise("UpcomingError", StatusMessage(resp.nodes), requests)}
            ELSE IF meta.returns = None
            THEN {Return(True, requests)}
            ELSE Results(meta, resp.nodes, requests)

----------------------------------------------------------------------------
(* SimpleCache and UpcomingCached *)

SimpleCache_get(st, key) == IF key \in DOMAIN st THEN st[key] ELSE None

\* a variant that keeps no other entry
SimpleCache_set_only(st, key, obj) == [k \in {key} |-> obj]

SimpleCache_set(st, key, obj) ==
    [k \in DOMAIN st \cup {key} |-> IF k = key THEN obj ELSE st[k]]

\* a variant that takes a method the registry does not hold for cachable
cachable_unregistered(method) ==
    method \in DOMAIN UPCOMING_METHODS => "cachable" \in DOMAIN UPCOMING_METHODS[method]

cachable(method) ==
    /\ method \in DOMAIN UPCOMING_METHODS
    /\ "cachable" \in DOMAIN UPCOMING_METHODS[method]

\* args holds the method name followed by the positional arguments
makeKey(args, kw) ==
    LET ks == sort(keys(DOMAIN kw))
    IN  join(sort(args)) \o join([i \in 1..Len(ks) |-> ks[i] \o kw[ks[i]]])

\* the ways UpcomingCached.callMethod ends on the cache contents st: how the
\* call ends, the cache operations it made and the cache contents it leaves
UpcomingCached_callMethod(st, method, args, kw, resp) ==
    IF cachable(method)
    THEN LET key == makeKey(<<method>> \o args, kw)
             hit == SimpleCache_get(st, key)
         IN  IF Truthy(hit)
             THEN {[result |-> Return(hit, <<>>), cache |-> <<<<"get", key>>>>, store |-> st]}
             ELSE {IF data.kind = "return"
                   THEN [result |-> data,
                         cache |-> <<<<"get", key>>, <<"set", key>>>>,
                         store |-> SimpleCache_set(st, key, data.value)]
                   ELSE [result |-> data, cache |-> <<<<"get", key>>>>, store |-> st]
                   : data \in Upcoming_callMethod(method, args, kw, resp)}
    ELSE {[result |-> data, cache |-> <<>>, store |-> st]
          : data \in Upcoming_callMethod(method, args, kw, resp)}

----------------------------------------------------------------------------
(* The service.  Elements of a response: error elements, and elements of   *)
(* the method's returned tag with every attribute of the descriptor        *)
(* present (Complete) or with none (Bare).                                 *)

ErrorMessages == {"Invalid API key", "Event not found"}

ErrorElement(msg) == Element("error", [k \in {"msg"} |-> msg])

\* a text the conversion accepts; ident is the text of the numeric attributes
SampleText(conversion, ident) ==
    CASE conversion = "int" -> ident
      [] conversion = "string" -> "x"
      [] conversion = "tag_str" -> "a,b"
      [] conversion = "date" -> "2006-07-27"
      [] conversion = "date_or_null" -> "0000-00-00"
      [] conversion = "time_or_null" -> "19:00:00"
      [] conversion = "boolean" -> "1"

Complete(returns, ident) ==
    Element(returns.element,
            [k \in DOMAIN returns.conversions |-> SampleText(returns.conversions[k], ident)])

Bare(tag) == Element(tag, [k \in {} |-> ""])

Elements(meta) ==
    {ErrorElement(msg) : msg \in ErrorMessages}
        \cup (IF meta.returns = None
              THEN {}
              ELSE {Complete(meta.returns, v) : v \in Values} \cup {Bare(meta.returns.element)})

\* every response a call of the method may meet
Responses(meta) ==
    {HttpFailure, InvalidXml}
        \cup {Document(stat, nodes) :
                stat \in {"ok", "fail"}, nodes \in SeqsUpTo(Elements(meta), MaxNodes)}

\* a service that answers a request the same way every time: one element
\* per required parameter of the method, identified by the value sent
Answer(method, merged) ==
    LET meta == UPCOMING_METHODS[method]
    IN  Document("ok",
                 IF meta.returns = None
                 THEN <<>>
                 ELSE [i \in 1..Len(meta.required) |->
                          Complete(meta.returns, merged[meta.required[i]])])

\* what a call may meet when the service is that one: its answer, or a failure
\* of the network, of the body or of the service
AnswerOrFailure(method, args, kw) ==
    {Answer(method, MergedArguments(method, args, kw)),
     HttpFailure, InvalidXml,
     Document("fail", <<ErrorElement("Invalid API key")>>)}

----------------------------------------------------------------------------
(* The clients and their callers. *)

NoResponse == [urlopen |-> FALSE, xml |-> FALSE, stat |-> "none", nodes |-> <<>>]

NoCall ==
    [client |-> "", method |-> "", args |-> <<>>, kw |-> <<>>, resp |-> NoResponse,
     result |-> Return(None, <<>>), cache |-> <<>>]

\* whether Upcoming.callMethod gets as far as urlopen
Requests(method, args, kw) ==
    \E data \in Upcoming_callMethod(method, args, kw, HttpFailure) : data.requests # <<>>

Init ==
    /\ store = <<>>
    /\ last = NoCall
    /\ calls = 0

\* a call of Upcoming(api_key).callMethod that meets resp if it asks the service
UpcomingCall(method, args, kw, resp) ==
    /\ \E data \in Upcoming_callMethod(method, args, kw, resp) :
          last' = [client |-> "Upcoming", method |-> method, args |-> args, kw |-> kw,
                   resp |-> IF data.requests = <<>> THEN NoResponse ELSE resp,
                   result |-> data, cache |-> <<>>]
    /\ UNCHANGED store

\* a call of UpcomingCached(api_key).callMethod
UpcomingCachedCall(method, args, kw, resp) ==
    /\ \E end \in UpcomingCached_callMethod(store, method, args, kw, resp) :
          /\ last' = [client |-> "UpcomingCached", method |-> method, args |-> args,
                      kw |-> kw,
                      resp |-> IF end.result.requests = <<>> THEN NoResponse ELSE resp,
                      result |-> end.result, cache |-> end.cache]
          /\ store' = end.store

\* the caller takes the result or the exception and goes on to its next call
Continue ==
    /\ last # NoCall
    /\ last' = NoCall
    /\ UNCHANGED <<store, calls>>

\* the responses to try: none but a failure when the call never asks
Met(method, args, kw, responses) ==
    IF Requests(method, args, kw) THEN responses ELSE {HttpFailure}

CallUpcoming ==
    /\ last = NoCall
    /\ calls < MaxCalls
    /\ calls' = calls + 1
    /\ \E method \in MethodNames, args \in ArgLists, kw \in KwDicts :
          \E resp \in Met(method, args, kw, AnswerOrFailure(method, args, kw)) :
             UpcomingCall(method, args, kw, resp)

CallUpcomingCached ==
    /\ last = NoCall
    /\ calls < MaxCalls
    /\ calls' = calls + 1
    /\ \E method \in MethodNames, args \in ArgLists, kw \in KwDicts :
          \E resp \in Met(method, args, kw, AnswerOrFailure(method, args, kw)) :
             UpcomingCachedCall(method, args, kw, resp)

Next == CallUpcoming \/ CallUpcomingCached \/ Continue

Spec == Init /\ [][Next]_vars

\* the plain client against every response document
CallAnyResponse ==
    /\ last = NoCall
    /\ UNCHANGED calls
    /\ \E method \in MethodNames, args \in ArgLists, kw \in KwDicts :
          \E resp \in Met(method, args, kw, Responses(UPCOMING_METHODS[method])) :
             UpcomingCall(method, args, kw, resp)

NextResponses == CallAnyResponse \/ Continue

SpecResponses == Init /\ [][NextResponses]_vars

----------------------------------------------------------------------------
(* Properties. *)

Called == last # NoCall

Registered == last.method \in DOMAIN UPCOMING_METHODS

\* required + optional of the method the last call named
Names(method) == UPCOMING_METHODS[method].required \o UPCOMING_METHODS[method].optional

\* the name=value pairs of the request a call sent
Sent(call) == call.result.requests[1].query \cup call.result.requests[1].data

\* the merged arguments of the last call lack a required name
LacksRequired ==
    /\ Len(last.args) <= Len(Names(last.method))
    /\ set(UPCOMING_METHODS[last.method].required)
          \ DOMAIN MergedArguments(last.method, last.args, last.kw) # {}

\* C1: a call of a registered method whose merged arguments lack a required
\* name raises UpcomingError "Required arguments for <method>: ..." and makes
\* no urlopen call, on either client.
C1_MissingArgumentsRaised ==
    (Called /\ Registered /\ LacksRequired)
        => last.result = Raise("UpcomingError", RequiredMessage(last.method), <<>>)

\* C2: a call naming a method the registry does not hold raises UpcomingError
\* "Invalid method specified" whatever its arguments, on either client,
\* without a urlopen call and without a cache get or set.
C2_InvalidMethodRaised ==
    (Called /\ ~Registered)
        => /\ last.result = Raise("UpcomingError", InvalidMethodMessage, <<>>)
           /\ last.cache = <<>>

C2_Witness ==
    /\ last.client = "UpcomingCached"
    /\ last.method = UnknownMethod
    /\ Len(last.args) = 2
    /\ "metro_id1" \in DOMAIN last.kw
    /\ last.result.kind = "raise"

\* positions of the last call whose name is also a named argument with
\* another value
Conflicts ==
    {i \in 1..Len(last.args) :
        /\ Names(last.method)[i] \in DOMAIN last.kw
        /\ last.kw[Names(last.method)[i]] # last.args[i]}

Asked == Called /\ last.result.requests # <<>>

\* C3 as stated: when a parameter is given positionally and by name with
\* different values, the request carries the named value.
C3_NamedValueSent ==
    Asked => \A i \in Conflicts :
                <<Names(last.method)[i], last.kw[Names(last.method)[i]]>> \in Sent(last)

\* C3 as the code has it: when a parameter is given positionally and by name
\* with different values, the request carries the positional value and not
\* the named one.
C3_PositionalValueSent ==
    Asked => \A i \in Conflicts :
                /\ <<Names(last.method)[i], last.args[i]>> \in Sent(last)
                /\ <<Names(last.method)[i], last.kw[Names(last.method)[i]]>> \notin Sent(last)

C3_Witness == Asked /\ Conflicts # {}

\* C4: every call ends by returning a value or by raising UpcomingError,
\* whatever the arguments and whatever the service answers.
C4_OnlyUpcomingErrorRaised ==
    Called => \/ last.result.kind = "return"
              \/ last.result.exc = "UpcomingError"

\* the ways a call of the caching client with the last call's arguments ends
\* on the present cache contents
Repeated ==
    UNION {UpcomingCached_callMethod(store, last.method, last.args, last.kw, resp) :
             resp \in AnswerOrFailure(last.method, last.args, last.kw)}

\* the last call was a call of a cachable method on the caching client that
\* missed the cache and returned
Filled ==
    /\ last.client = "UpcomingCached"
    /\ Len(last.cache) = 2
    /\ last.result.kind = "return"

\* C5: after a call of a cachable method on the caching client has missed
\* the cache and returned, the same call made again makes no urlopen call and
\* returns the same value, whatever that value is.
C5_RepeatedCallAnsweredFromCache ==
    Filled => \A end \in Repeated :
                 end.result = Return(last.result.value, <<>>)

\* the parameters of the call that gives the last call's positional values
\* under their names
KeywordEquivalent ==
    [k \in DOMAIN last.kw \cup {Names(last.method)[i] : i \in 1..Len(last.args)} |->
        IF k \in DOMAIN last.kw
        THEN last.kw[k]
        ELSE last.args[CHOOSE i \in 1..Len(last.args) : Names(last.method)[i] = k]]

\* C6: a call that passes values positionally (none of them also by name)
\* sends the same parameters as the call that gives the i-th value under the
\* i-th name of required + optional, and these hold api_key with the client's
\* key and method with the method's name.
C6_PositionalAsKeyword ==
    (Asked /\ {i \in 1..Len(last.args) : Names(last.method)[i] \in DOMAIN last.kw} = {})
        => /\ Sent(last) = urlencode(MergedArguments(last.method, <<>>, KeywordEquivalent))
           /\ Sent(last) =
                 {<<k, KeywordEquivalent[k]>> : k \in DOMAIN KeywordEquivalent \ {"api_key"}}
                    \cup {<<"api_key", api_key>>, <<"method", last.method>>}

C6_Witness ==
    /\ Asked
    /\ last.method = "event.search"
    /\ last.args = <<"11", "1">>
    /\ last.kw = <<>>
    /\ Sent(last) = {<<"search_text", "11">>, <<"country_id", "1">>,
                     <<"api_key", api_key>>, <<"method", "event.search">>}

\* the last call got a document from the service
Parsed == Called /\ last.resp.urlopen /\ last.resp.xml

\* positions of the elements of a tag in the last response
At(tag) == {i \in 1..Len(last.resp.nodes) : last.resp.nodes[i].tag = tag}

First(S) == CHOOSE i \in S : \A j \in S : i <= j

\* C7: when the root's stat is not "ok" the call raises UpcomingError, for
\* every method, with the msg of the first error element, or with
\* 'Status not OK' when the document has no error element.
C7_StatusErrorRaised ==
    (Parsed /\ last.resp.stat # "ok")
        => /\ last.result.kind = "raise"
           /\ last.result.exc = "UpcomingError"
           /\ last.result.msg =
                 IF At("error") = {}
                 THEN "Status not OK"
                 ELSE last.resp.nodes[First(At("error"))].attrs["msg"]

C7_Witness ==
    /\ Parsed
    /\ last.method = "watchlist.remove"
    /\ last.resp.stat = "fail"
    /\ last.resp.nodes = <<ErrorElement("Event not found"), ErrorElement("Invalid API key")>>
    /\ last.result.msg = "Event not found"

\* the i-th element of the returned tag in the last response
Found(i) ==
    LET at == At(UPCOMING_METHODS[last.method].returns.element)
    IN  last.resp.nodes[CHOOSE p \in at : Cardinality({q \in at : q <= p}) = i]

C9_CacheFrame ==
    [][LET call == last'
           key == makeKey(<<call.method>> \o call.args, call.kw)
       IN  IF call # NoCall /\ call.client = "UpcomingCached" /\ cachable(call.method)
           THEN IF Truthy(SimpleCache_get(store, key))
                THEN store' = store /\ call.result.requests = <<>>
                ELSE IF call.result.kind = "raise"
                THEN store' = store
                ELSE /\ DOMAIN store' = DOMAIN store \cup {key}
                     /\ store'[key] = call.result.value
                     /\ \A k \in DOMAIN store \ {key} : store'[k] = store[k]
           ELSE store' = store /\ call.cache = <<>>]_vars

C9_Witness ==
    /\ Cardinality(DOMAIN store) = 2
    /\ last.client = "UpcomingCached"
    /\ Len(last.cache) = 2

\* C10: the value a cache hit returns is the value the dispatcher returns
\* for that call's own method and merged arguments when the service answers
\* every request the same way each time.
C10_HitReturnsOwnValue ==
    (last.client = "UpcomingCached" /\ Len(last.cache) = 1
        /\ last.result.kind = "return" /\ last.result.requests = <<>>)
        => /\ ~LacksRequired
           /\ Len(last.args) <= Len(Names(last.method))
           /\ \E data \in Upcoming_callMethod(last.method, last.args, last.kw,
                             Answer(last.method,
                                    MergedArguments(last.method, last.args, last.kw))) :
                 data.kind = "return" /\ data.value = last.result.value

====
